---- MODULE Spec2Model ----
(***************************************************************************)
(* Model of marketing_strategy_advisor.py: the three fetchers, the        *)
(* MarketingStrategyAdvisor pipeline (gather_data, process_data,          *)
(* generate_strategy, execute_strategy) and monitor_campaign.             *)
(*                                                                         *)
(* Python values are modelled as follows.  A dict whose iteration order   *)
(* matters (trends, metrics, a JSON object) is a sequence of              *)
(* [key, value] items in insertion order; a list is a sequence of its     *)
(* elements; a segment dict is a record whose domain is its key set.      *)
(* The empty dict and the empty list are both <<>>: the code only ever    *)
(* tests them with "not x".  None is the record NoneVal.                  *)
(***************************************************************************)
EXTENDS Integers, Sequences, FiniteSets

VARIABLES pc, task, gets, results, market_data, insights, strategy,
          exec_result, posts, payload, post_resp, log,
          mon_pc, mon_id, mon_resp, metrics, mon_calls, mon_iters,
          revenue, conversion_rate

pipeVars == <<pc, task, gets, results, market_data, insights, strategy,
              exec_result, posts, payload, post_resp, log>>
monVars == <<mon_pc, mon_id, mon_resp, metrics, mon_calls, mon_iters,
             revenue, conversion_rate>>
vars == <<pc, task, gets, results, market_data, insights, strategy,
          exec_result, posts, payload, post_resp, log,
          mon_pc, mon_id, mon_resp, metrics, mon_calls, mon_iters,
          revenue, conversion_rate>>

(* ---------------------------- bounds ----------------------------------- *)
\* longest trends mapping / segments list a response body carries
MaxLen == 2
\* most iterations of the monitor loop that are explored
MaxPolls == 3

(* ---------------------------- values ----------------------------------- *)
NoneVal == [none |-> TRUE]
EmptyMap == <<>>

config == [api_key |-> "key", customer_id |-> "cust", campaign_id |-> "camp",
           aws_region |-> "region"]

Fetchers == {1, 2, 3}

TrendKeys == {"a", "b", "c"}
TrendValues == {1, 5}
SegmentDicts == {[name |-> "w"],
                 [name |-> "x", size |-> 0],
                 [name |-> "x", size |-> 2],
                 [name |-> "y", size |-> 2]}
NegativeSegment == [name |-> "n", size |-> -1]

SeqsUpTo(S, n) == UNION {[1..k -> S] : k \in 0..n}

ExampleTrends == <<[key |-> "a", value |-> 1], [key |-> "b", value |-> 5],
                   [key |-> "c", value |-> 3]>>
ExampleSegments == <<[size |-> 2], [size |-> 9], [size |-> 1]>>
\* a JSON object where the code expects a list of segments
SegmentsAsMapping == <<[key |-> "segments", value |-> 1]>>

TrendBodies ==
    {t \in SeqsUpTo([key : TrendKeys, value : TrendValues], MaxLen) :
        \A i, j \in 1..Len(t) : t[i].key = t[j].key => i = j}
    \cup {ExampleTrends}

SegmentBodies ==
    SeqsUpTo(SegmentDicts, MaxLen)
    \cup {<<[name |-> "w"], NegativeSegment>>, <<NegativeSegment, [name |-> "w"]>>,
          ExampleSegments, SegmentsAsMapping}

MetricBodies == {EmptyMap,
                 <<[key |-> "revenue", value |-> 10]>>,
                 <<[key |-> "revenue", value |-> 10],
                   [key |-> "conversion_rate", value |-> 2]>>}

Bodies(i) == IF i = 1 THEN TrendBodies
             ELSE IF i = 2 THEN SegmentBodies ELSE MetricBodies

\* the body a non-200 answer carries (ignored by the code)
ErrorBody(i) == IF i = 1 THEN <<[key |-> "a", value |-> 1]>>
                ELSE IF i = 2 THEN <<[name |-> "w"]>>
                ELSE <<[key |-> "revenue", value |-> 10]>>

ErrorStatuses == {204, 500}

NoResp == [exc |-> FALSE, status |-> 0, json_ok |-> FALSE, body |-> EmptyMap]

\* what session.get(...) can produce for fetcher i: a transport exception, a
\* 200 answer whose body decodes or fails to decode, or a non-200 answer
Responses(i) ==
    {[exc |-> TRUE, status |-> 0, json_ok |-> FALSE, body |-> EmptyMap]}
    \cup {[exc |-> FALSE, status |-> 200, json_ok |-> TRUE, body |-> b] : b \in Bodies(i)}
    \cup {[exc |-> FALSE, status |-> 200, json_ok |-> FALSE, body |-> EmptyMap]}
    \cup {[exc |-> FALSE, status |-> s, json_ok |-> TRUE, body |-> b] :
            s \in ErrorStatuses, b \in {EmptyMap, ErrorBody(i)}}

(* ---------------------------- fetchers --------------------------------- *)
Returned(v, l) == [raised |-> FALSE, value |-> v, log |-> l]
Raised(l) == [raised |-> TRUE, value |-> NoneVal, log |-> l]

\* the body of a fetcher applied to the outcome of its GET
fetch_market_trends(resp) ==
    IF resp.exc THEN Returned(EmptyMap, <<"error">>)
    ELSE IF resp.status = 200
         THEN IF resp.json_ok THEN Returned(resp.body, <<>>)
              ELSE Returned(EmptyMap, <<"error">>)
         ELSE Returned(EmptyMap, <<"error">>)

\* variant: any 2xx status taken for success
fetch_customer_behavior_any_2xx(resp) ==
    IF resp.exc THEN Returned(EmptyMap, <<"error">>)
    ELSE IF resp.status >= 200 /\ resp.status < 300
         THEN IF resp.json_ok THEN Returned(resp.body, <<>>)
              ELSE Returned(EmptyMap, <<"error">>)
         ELSE Returned(EmptyMap, <<"error">>)

fetch_customer_behavior(resp) ==
    IF resp.exc THEN Returned(EmptyMap, <<"error">>)
    ELSE IF resp.status = 200
         THEN IF resp.json_ok THEN Returned(resp.body, <<>>)
              ELSE Returned(EmptyMap, <<"error">>)
         ELSE Returned(EmptyMap, <<"error">>)

\* variant: the status check left out
analyze_campaign_performance_no_status(resp) ==
    IF resp.exc THEN Returned(EmptyMap, <<"error">>)
    ELSE IF resp.json_ok THEN Returned(resp.body, <<>>)
    ELSE Returned(EmptyMap, <<"error">>)

analyze_campaign_performance(resp) ==
    IF resp.exc THEN Returned(EmptyMap, <<"error">>)
    ELSE IF resp.status = 200
         THEN IF resp.json_ok THEN Returned(resp.body, <<>>)
              ELSE Returned(EmptyMap, <<"error">>)
         ELSE Returned(EmptyMap, <<"error">>)

FetcherBody(i, resp) ==
    IF i = 1 THEN fetch_market_trends(resp)
    ELSE IF i = 2 THEN fetch_customer_behavior(resp)
    ELSE analyze_campaign_performance(resp)

(* ---------------------------- gather_data ------------------------------ *)
NewTask == [pc |-> "created", resp |-> NoResp, raised |-> FALSE, value |-> EmptyMap]

\* variant: gather resumes at the first completion
AnyDone == \E i \in Fetchers : task[i].pc = "done"

AllDone == \A i \in Fetchers : task[i].pc = "done"

ExceptionObject == [exception |-> TRUE]

\* asyncio.gather(*tasks, return_exceptions=True): one result per task, in the
\* order the tasks were passed, an exception object standing for a task that raised
asyncio_gather(t) ==
    [i \in Fetchers |-> IF t[i].raised THEN ExceptionObject ELSE t[i].value]

MarketData(trends, customer_segments, campaign_metrics) ==
    [trends |-> trends, customer_segments |-> customer_segments,
     campaign_metrics |-> campaign_metrics]

\* the driver's order of the stages
NextStage(stage) ==
    IF stage = "gather_data" THEN "process_data"
    ELSE IF stage = "process_data" THEN "generate_strategy"
    ELSE IF stage = "generate_strategy" THEN "execute_strategy"
    ELSE "done"

\* lines 78-84: the three coroutines are created and handed to gather
GatherStart ==
    /\ pc = "gather_data"
    /\ pc' = "await_gather"
    /\ task' = [i \in Fetchers |-> [task[i] EXCEPT !.pc = "running"]]
    /\ UNCHANGED <<gets, results, market_data, insights, strategy, exec_result,
                   posts, payload, post_resp, log>>
    /\ UNCHANGED monVars

\* a fetcher runs up to its session.get(...) and suspends on the network
FetchGet(i) ==
    /\ pc = "await_gather"
    /\ task[i].pc = "running"
    /\ task' = [task EXCEPT ![i].pc = "waiting"]
    /\ gets' = [gets EXCEPT ![i] = @ + 1]
    /\ UNCHANGED <<pc, results, market_data, insights, strategy, exec_result,
                   posts, payload, post_resp, log>>
    /\ UNCHANGED monVars

\* variant: a failed GET is retried
FetchRespondRetry(i) ==
    /\ pc = "await_gather"
    /\ task[i].pc = "waiting"
    /\ \E r \in Responses(i) :
         LET out == FetcherBody(i, r) IN
         /\ task' = [task EXCEPT ![i] =
                        IF (r.exc \/ r.status # 200) /\ gets[i] < 2
                        THEN [task[i] EXCEPT !.pc = "running"]
                        ELSE [pc |-> "done", resp |-> r,
                              raised |-> out.raised, value |-> out.value]]
         /\ log' = log \o out.log
    /\ UNCHANGED <<pc, gets, results, market_data, insights, strategy, exec_result,
                   posts, payload, post_resp>>
    /\ UNCHANGED monVars

\* the GET of fetcher i completes and the fetcher runs to its return
FetchRespond(i) ==
    /\ pc = "await_gather"
    /\ task[i].pc = "waiting"
    /\ \E r \in Responses(i) :
         LET out == FetcherBody(i, r) IN
         /\ task' = [task EXCEPT ![i] = [pc |-> "done", resp |-> r,
                                         raised |-> out.raised, value |-> out.value]]
         /\ log' = log \o out.log
    /\ UNCHANGED <<pc, gets, results, market_data, insights, strategy, exec_result,
                   posts, payload, post_resp>>
    /\ UNCHANGED monVars

\* lines 84-92: gather resumes gather_data, which assembles the record
GatherJoin ==
    /\ pc = "await_gather"
    /\ AllDone
    /\ LET res == asyncio_gather(task) IN
         /\ results' = res
         /\ market_data' = MarketData(res[1], res[2], res[3])
    /\ pc' = NextStage("gather_data")
    /\ UNCHANGED <<task, gets, insights, strategy, exec_result, posts, payload,
                   post_resp, log>>
    /\ UNCHANGED monVars

(* ---------------------------- process_data ----------------------------- *)
\* variant: the last maximal element wins
RECURSIVE PyMaxFromLast(_, _, _)
PyMaxFromLast(keys, i, best) ==
    IF i > Len(keys) THEN best
    ELSE PyMaxFromLast(keys, i + 1, IF keys[i] >= keys[best] THEN i ELSE best)

\* max(iterable, key=...): the index of the first element whose key is maximal
RECURSIVE PyMaxFrom(_, _, _)
PyMaxFrom(keys, i, best) ==
    IF i > Len(keys) THEN best
    ELSE PyMaxFrom(keys, i + 1, IF keys[i] > keys[best] THEN i ELSE best)

PyMax(keys) == PyMaxFrom(keys, 2, 1)

\* x.get('size', 0)
SizeOf(x) == IF "size" \in DOMAIN x THEN x.size ELSE 0

\* a non-empty JSON object: iterating it yields its string keys
IsMapping(x) == x # EmptyMap /\ \A i \in 1..Len(x) : DOMAIN x[i] = {"key", "value"}

\* max() of an empty iterable raises ValueError; the key function raises
\* AttributeError on the str keys a mapping iterates over
MaxRaises(trends, segments) ==
    trends = EmptyMap \/ segments = EmptyMap \/ IsMapping(segments)

\* variant: "and" for "or"
InsufficientBoth(trends, segments) == trends = EmptyMap /\ segments = EmptyMap

\* "not trends or not segments"
Insufficient(trends, segments) == trends = EmptyMap \/ segments = EmptyMap

process_data(md) ==
    LET trends == md.trends
        segments == md.customer_segments
    IN IF Insufficient(trends, segments) THEN Returned(NoneVal, <<"warning">>)
       ELSE IF MaxRaises(trends, segments)
            \* the except clause logs and re-raises
            THEN Raised(<<"error">>)
            ELSE Returned(
                   [top_trend |-> trends[PyMax([i \in 1..Len(trends) |-> trends[i].value])].key,
                    target_segment |->
                        segments[PyMax([i \in 1..Len(segments) |-> SizeOf(segments[i])])]],
                   <<>>)

ProcessData ==
    /\ pc = "process_data"
    /\ LET out == process_data(market_data) IN
         /\ insights' = out.value
         /\ log' = log \o out.log
         /\ pc' = IF out.raised THEN "process_data_raised" ELSE NextStage("process_data")
    /\ UNCHANGED <<task, gets, results, market_data, strategy, exec_result, posts,
                   payload, post_resp>>
    /\ UNCHANGED monVars

(* ---------------------------- generate_strategy ------------------------ *)
\* variant: type and objective tags exchanged
generate_strategy_swapped_tags(ins) ==
    IF ins = NoneVal THEN Returned(NoneVal, <<"warning">>)
    ELSE Returned([type |-> "customer_acquisition",
                   objective |-> "targeted_campaign",
                   segments |-> <<ins.target_segment>>,
                   trend_focus |-> ins.top_trend], <<>>)

generate_strategy(ins) ==
    IF ins = NoneVal THEN Returned(NoneVal, <<"warning">>)
    ELSE Returned([type |-> "targeted_campaign",
                   objective |-> "customer_acquisition",
                   segments |-> <<ins.target_segment>>,
                   trend_focus |-> ins.top_trend], <<>>)

GenerateStrategy ==
    /\ pc = "generate_strategy"
    /\ LET out == generate_strategy(insights) IN
         /\ strategy' = out.value
         /\ log' = log \o out.log
         /\ pc' = IF out.raised THEN "generate_strategy_raised"
                              ELSE NextStage("generate_strategy")
    /\ UNCHANGED <<task, gets, results, market_data, insights, exec_result, posts,
                   payload, post_resp>>
    /\ UNCHANGED monVars

(* ---------------------------- execute_strategy ------------------------- *)
PostBodies == {[campaign |-> "started"], [campaign |-> "queued"]}

PostResponses ==
    {[exc |-> TRUE, status |-> 0, json_ok |-> FALSE, body |-> NoneVal]}
    \cup {[exc |-> FALSE, status |-> 200, json_ok |-> TRUE, body |-> b] : b \in PostBodies}
    \cup {[exc |-> FALSE, status |-> 200, json_ok |-> FALSE, body |-> NoneVal]}
    \cup {[exc |-> FALSE, status |-> s, json_ok |-> TRUE, body |-> b] :
            s \in ErrorStatuses, b \in PostBodies}

NoPostResp == [exc |-> FALSE, status |-> 0, json_ok |-> FALSE, body |-> NoneVal]

\* variant: the absent-strategy check left out
StrategyNeverAbsent(s) == FALSE

\* "not strategy"
StrategyAbsent(s) == s = NoneVal

\* variant: the wrong config key
BuildPayloadCustomerId(s) == [id |-> config.customer_id, strategy |-> s]

BuildPayload(s) == [id |-> config.campaign_id, strategy |-> s]

\* lines 156-163: what execute_strategy does with the outcome of its POST
execute_response(resp) ==
    IF resp.exc THEN Raised(<<"error">>)
    ELSE IF resp.status = 200
         THEN IF resp.json_ok THEN Returned(resp.body, <<"info">>)
              ELSE Raised(<<"info", "error">>)
         ELSE Returned(NoneVal, <<"error">>)

\* lines 141-155: the absent-strategy return, or the POST is issued
ExecuteStrategy ==
    /\ pc = "execute_strategy"
    /\ IF StrategyAbsent(strategy)
       THEN /\ exec_result' = NoneVal
            /\ log' = log \o <<"warning">>
            /\ pc' = NextStage("execute_strategy")
            /\ UNCHANGED <<posts, payload>>
       ELSE /\ payload' = BuildPayload(strategy)
            /\ posts' = posts + 1
            /\ pc' = "await_post"
            /\ UNCHANGED <<exec_result, log>>
    /\ UNCHANGED <<task, gets, results, market_data, insights, strategy, post_resp>>
    /\ UNCHANGED monVars

\* the POST completes and execute_strategy runs to its return or raise
ExecuteRespond ==
    /\ pc = "await_post"
    /\ \E r \in PostResponses :
         LET out == execute_response(r) IN
         /\ post_resp' = r
         /\ exec_result' = out.value
         /\ log' = log \o out.log
         /\ pc' = IF out.raised THEN "execute_strategy_raised"
                              ELSE NextStage("execute_strategy")
    /\ UNCHANGED <<task, gets, results, market_data, insights, strategy, posts, payload>>
    /\ UNCHANGED monVars

(* ---------------------------- monitor_campaign ------------------------- *)
CampaignIds == {"camp", "other"}

\* metrics.get(k, default)
DictGet(m, k, default) ==
    IF \E i \in 1..Len(m) : m[i].key = k
    THEN (CHOOSE it \in {m[i] : i \in 1..Len(m)} : it.key = k).value
    ELSE default

\* variant: the loop never breaks
MonitorNeverBreaks(m) == FALSE

\* "if not metrics: ... break"
MonitorBreaks(m) == m = EmptyMap

MonitorStart ==
    /\ mon_pc = "idle"
    /\ \E id \in CampaignIds : mon_id' = id
    /\ mon_pc' = "polling"
    /\ UNCHANGED <<mon_resp, metrics, mon_calls, mon_iters, revenue, conversion_rate>>
    /\ UNCHANGED pipeVars

\* line 169: the loop body calls analyze_campaign_performance, which issues its GET
MonitorCall ==
    /\ mon_pc = "polling"
    /\ mon_iters < MaxPolls
    /\ mon_iters' = mon_iters + 1
    /\ mon_calls' = mon_calls + 1
    /\ mon_pc' = "await_metrics"
    /\ UNCHANGED <<mon_id, mon_resp, metrics, revenue, conversion_rate>>
    /\ UNCHANGED pipeVars

\* lines 169-176: the call returns; the loop breaks on empty metrics, else
\* the revenue and conversion-rate fields are read
MonitorReceive ==
    /\ mon_pc = "await_metrics"
    /\ \E r \in Responses(3) :
         LET m == analyze_campaign_performance(r).value IN
         /\ mon_resp' = r
         /\ metrics' = m
         /\ IF MonitorBreaks(m)
            THEN /\ mon_pc' = "left_loop"
                 /\ UNCHANGED <<revenue, conversion_rate>>
            ELSE /\ mon_pc' = "extracted"
                 /\ revenue' = DictGet(m, "revenue", 0)
                 /\ conversion_rate' = DictGet(m, "conversion_rate", 0)
    /\ UNCHANGED <<mon_id, mon_calls, mon_iters>>
    /\ UNCHANGED pipeVars

\* the rest of the loop body (cut off in the source): back to the top of the loop
MonitorLoopBack ==
    /\ mon_pc = "extracted"
    /\ mon_pc' = "polling"
    /\ UNCHANGED <<mon_id, mon_resp, metrics, mon_calls, mon_iters, revenue,
                   conversion_rate>>
    /\ UNCHANGED pipeVars

(* ---------------------------- specifications --------------------------- *)
Init ==
    /\ pc = "gather_data"
    /\ task = [i \in Fetchers |-> NewTask]
    /\ gets = [i \in Fetchers |-> 0]
    /\ results = <<>>
    /\ market_data = NoneVal
    /\ insights = NoneVal
    /\ strategy = NoneVal
    /\ exec_result = NoneVal
    /\ posts = 0
    /\ payload = NoneVal
    /\ post_resp = NoPostResp
    /\ log = <<>>
    /\ mon_pc = "idle"
    /\ mon_id = "none"
    /\ mon_resp = NoResp
    /\ metrics = EmptyMap
    /\ mon_calls = 0
    /\ mon_iters = 0
    /\ revenue = 0
    /\ conversion_rate = 0

\* one advisory cycle
Next ==
    \/ GatherStart
    \/ \E i \in Fetchers : FetchGet(i)
    \/ \E i \in Fetchers : FetchRespond(i)
    \/ GatherJoin
    \/ ProcessData
    \/ GenerateStrategy
    \/ ExecuteStrategy
    \/ ExecuteRespond

Spec == Init /\ [][Next]_vars

\* one run of monitor_campaign; the coroutine, once resumed, runs on
NextMonitor ==
    \/ MonitorStart
    \/ MonitorCall
    \/ MonitorReceive
    \/ MonitorLoopBack

SpecMonitor == Init /\ [][NextMonitor]_vars /\ WF_vars(NextMonitor)

(* ---------------------------- properties ------------------------------- *)
\* gather_data has returned
Gathered == pc \notin {"gather_data", "await_gather"}

\* process_data has returned a value (not raised)
ProcessReturned ==
    pc \in {"generate_strategy", "generate_strategy_raised", "execute_strategy",
            "await_post", "done", "execute_strategy_raised"}

\* generate_strategy has returned a value
GenerateReturned ==
    pc \in {"execute_strategy", "await_post", "done", "execute_strategy_raised"}

\* execute_strategy has returned or raised
ExecuteEnded == pc \in {"done", "execute_strategy_raised"}

\* the GET answered 200 and its body decoded
GoodAnswer(r) == ~r.exc /\ r.status = 200 /\ r.json_ok

\* C1: a fetcher whose GET raised, answered a status other than 200, or whose
\* body failed to decode returns the empty mapping and does not raise; it
\* returns the decoded body only on status 200.
C1_FetcherSwallowsFailure ==
    \A i \in Fetchers :
        task[i].pc = "done" =>
            /\ ~task[i].raised
            /\ (task[i].resp.exc \/ task[i].resp.status # 200 \/ ~task[i].resp.json_ok)
                  => task[i].value = EmptyMap
            /\ GoodAnswer(task[i].resp) => task[i].value = task[i].resp.body
            /\ task[i].value # EmptyMap => task[i].resp.status = 200

C1_Witness ==
    /\ \A i \in Fetchers : task[i].pc = "done"
    /\ task[1].resp.exc /\ task[1].value = EmptyMap
    /\ task[2].resp.status = 204 /\ task[2].resp.body # EmptyMap
    /\ task[2].value = EmptyMap
    /\ task[3].resp.status = 200 /\ task[3].value # EmptyMap

\* C2 as stated: whichever fetcher returns empty data, no POST is issued.
C2_AnyEmptyFetchSkipsPost ==
    (Gathered /\ \E i \in Fetchers : task[i].value = EmptyMap) =>
        /\ posts = 0
        /\ pc # "await_post"

\* C2 amended: when the market-trends fetcher or the customer-behaviour
\* fetcher returns empty data, execution is skipped and no POST is issued.
C2_EmptyTrendsOrSegmentsSkipsPost ==
    (Gathered /\ (task[1].value = EmptyMap \/ task[2].value = EmptyMap)) =>
        /\ posts = 0
        /\ pc # "await_post"
        /\ payload = NoneVal
        /\ pc \in {"process_data", "generate_strategy", "execute_strategy", "done"}
        /\ pc = "done" => exec_result = NoneVal

C2_Witness ==
    /\ pc = "done"
    /\ task[1].value # EmptyMap
    /\ task[2].value = EmptyMap
    /\ task[3].value # EmptyMap
    /\ posts = 0
    /\ exec_result = NoneVal

\* C3: when all three fetches fail (non-200 or transport error) gather_data
\* can return, and what it returns is a record whose three fields are empty.
C3_AllFailedGivesEmptyRecord ==
    (\A i \in Fetchers :
        task[i].pc = "done" /\ (task[i].resp.exc \/ task[i].resp.status # 200)) =>
        /\ pc = "await_gather" => ENABLED GatherJoin
        /\ Gathered =>
             /\ market_data.trends = EmptyMap
             /\ market_data.customer_segments = EmptyMap
             /\ market_data.campaign_metrics = EmptyMap

C3_Witness ==
    /\ pc = "process_data"
    /\ task[1].resp.exc
    /\ task[2].resp.status = 500
    /\ task[3].resp.status = 500 /\ task[3].resp.body # EmptyMap
    /\ market_data = [trends |-> EmptyMap, customer_segments |-> EmptyMap,
                      campaign_metrics |-> EmptyMap]

\* C4: with empty trends or empty segments process_data returns None (it
\* does not raise), generate_strategy given that None returns None, and no
\* strategy record is built.
C4_InsufficientDataGivesNone ==
    (/\ pc \notin {"gather_data", "await_gather", "process_data"}
     /\ (market_data.trends = EmptyMap \/ market_data.customer_segments = EmptyMap)) =>
        /\ pc \in {"generate_strategy", "execute_strategy", "done"}
        /\ insights = NoneVal
        /\ strategy = NoneVal

C4_Witness ==
    /\ pc = "execute_strategy"
    /\ market_data.trends # EmptyMap
    /\ market_data.customer_segments = EmptyMap
    /\ insights = NoneVal
    /\ strategy = NoneVal

\* C5: for non-empty trends and a non-empty segments list, top_trend is the
\* first key in iteration order whose value is maximal and target_segment is
\* the first element whose size (0 when missing) is maximal.
C5_FirstMaximum ==
    (/\ pc \notin {"gather_data", "await_gather", "process_data"}
     /\ market_data.trends # EmptyMap
     /\ market_data.customer_segments # EmptyMap
     /\ ~IsMapping(market_data.customer_segments)) =>
        LET t == market_data.trends
            s == market_data.customer_segments
        IN /\ ProcessReturned
           /\ insights # NoneVal
           /\ \E i \in 1..Len(t) :
                /\ insights.top_trend = t[i].key
                /\ \A j \in 1..Len(t) : t[j].value <= t[i].value
                /\ \A j \in 1..(i - 1) : t[j].value < t[i].value
           /\ \E i \in 1..Len(s) :
                /\ insights.target_segment = s[i]
                /\ \A j \in 1..Len(s) : SizeOf(s[j]) <= SizeOf(s[i])
                /\ \A j \in 1..(i - 1) : SizeOf(s[j]) < SizeOf(s[i])
           /\ t = ExampleTrends => insights.top_trend = "b"
           /\ s = ExampleSegments => insights.target_segment = [size |-> 9]

C5_Witness ==
    /\ pc = "generate_strategy"
    /\ market_data.trends = <<[key |-> "c", value |-> 5], [key |-> "a", value |-> 5]>>
    /\ market_data.customer_segments = <<[name |-> "x", size |-> 2], [name |-> "y", size |-> 2]>>
    /\ insights = [top_trend |-> "c", target_segment |-> [name |-> "x", size |-> 2]]

\* what the claims on execute_strategy share: the absent-strategy return and
\* the single POST with its payload
ExecuteCommon ==
    /\ posts <= 1
    /\ posts = 1 => payload = [id |-> config.campaign_id, strategy |-> strategy]
    /\ (ExecuteEnded /\ strategy = NoneVal) =>
          pc = "done" /\ exec_result = NoneVal /\ posts = 0
    /\ (ExecuteEnded /\ strategy # NoneVal) => posts = 1

\* C6 as stated: on a non-200 status or an exception during the call,
\* execute_strategy returns None to its caller.
C6_ExecuteReturnsNoneOnException ==
    /\ ExecuteCommon
    /\ (ExecuteEnded /\ strategy # NoneVal) =>
          IF GoodAnswer(post_resp)
          THEN pc = "done" /\ exec_result = post_resp.body
          ELSE pc = "done" /\ exec_result = NoneVal /\ log[Len(log)] = "error"

\* C6 amended: a present strategy is POSTed once as {id: campaign_id,
\* strategy}; on status 200 the decoded body is returned, on another status
\* the error is logged and None returned, and on an exception during the call
\* the error is logged and the exception is re-raised to the caller; an absent
\* strategy gives None and no POST.
C6_ExecuteReraisesException ==
    /\ ExecuteCommon
    /\ (ExecuteEnded /\ strategy # NoneVal) =>
          IF GoodAnswer(post_resp)
          THEN pc = "done" /\ exec_result = post_resp.body
          ELSE IF post_resp.exc \/ post_resp.status = 200
          THEN pc = "execute_strategy_raised" /\ log[Len(log)] = "error"
          ELSE pc = "done" /\ exec_result = NoneVal /\ log[Len(log)] = "error"

C6_Witness ==
    /\ pc = "execute_strategy_raised"
    /\ post_resp.exc
    /\ posts = 1
    /\ payload = [id |-> "camp", strategy |-> strategy]
    /\ strategy # NoneVal

\* C7: for present insights generate_strategy returns exactly the fixed-shape
\* record, with one element in segments, and leaves the insights unchanged.
C7_FixedShapeStrategy ==
    /\ [](GenerateReturned /\ insights # NoneVal =>
            /\ strategy = [type |-> "targeted_campaign",
                           objective |-> "customer_acquisition",
                           segments |-> <<insights.target_segment>>,
                           trend_focus |-> insights.top_trend]
            /\ Len(strategy.segments) = 1)
    /\ [][pc = "generate_strategy" => insights' = insights]_vars

C7_Witness ==
    /\ pc = "execute_strategy"
    /\ insights = [top_trend |-> "b", target_segment |-> [size |-> 9]]
    /\ strategy = [type |-> "targeted_campaign", objective |-> "customer_acquisition",
                   segments |-> <<[size |-> 9]>>, trend_focus |-> "b"]

\* C8: gather_data returns only once all three fetchers have finished; the
\* record holds each fetcher's own result at its launch position; a finished
\* fetcher's result is never changed, no task is cancelled, and a step of one
\* fetcher leaves the other two as they were.
C8_JoinIsPositionalAndComplete ==
    /\ [](Gathered =>
            /\ \A i \in Fetchers : task[i].pc = "done"
            /\ market_data.trends = task[1].value
            /\ market_data.customer_segments = task[2].value
            /\ market_data.campaign_metrics = task[3].value
            /\ GoodAnswer(task[1].resp) => market_data.trends = task[1].resp.body
            /\ GoodAnswer(task[2].resp) =>
                  market_data.customer_segments = task[2].resp.body
            /\ GoodAnswer(task[3].resp) =>
                  market_data.campaign_metrics = task[3].resp.body)
    /\ [](\A i \in Fetchers : task[i].pc \in {"created", "running", "waiting", "done"})
    /\ [][\A i \in Fetchers :
            /\ task[i].pc = "done" => task'[i] = task[i]
            /\ (pc = "await_gather" /\ task'[i] # task[i]) =>
                  \A j \in Fetchers \ {i} : task'[j] = task[j]]_vars

C8_Witness ==
    /\ pc = "process_data"
    /\ task[2].resp.exc
    /\ market_data.trends = ExampleTrends
    /\ market_data.customer_segments = EmptyMap
    /\ market_data.campaign_metrics = <<[key |-> "revenue", value |-> 10]>>

StageRank(p) ==
    IF p = "gather_data" THEN 0
    ELSE IF p = "await_gather" THEN 1
    ELSE IF p = "process_data" THEN 2
    ELSE IF p = "generate_strategy" THEN 3
    ELSE IF p = "execute_strategy" THEN 4
    ELSE IF p = "await_post" THEN 5
    ELSE 6

\* C10: each fetcher issues exactly one GET, at most one POST is issued, the
\* POST comes only after all three GETs have completed and process_data and
\* generate_strategy have returned a non-empty result, and the stages run
\* one after another, none of them twice.
C10_SequentialNoRetry ==
    /\ [](/\ \A i \in Fetchers : gets[i] <= 1
          /\ Gathered => \A i \in Fetchers : gets[i] = 1
          /\ posts <= 1
          /\ posts = 1 =>
               /\ \A i \in Fetchers : task[i].pc = "done" /\ gets[i] = 1
               /\ pc \in {"await_post", "done", "execute_strategy_raised"}
               /\ insights # NoneVal
               /\ strategy # NoneVal)
    /\ [][/\ pc' # pc => StageRank(pc') > StageRank(pc)
          /\ posts' # posts => (pc = "execute_strategy" /\ posts' = posts + 1)]_vars

C10_Witness ==
    /\ pc = "done"
    /\ posts = 1
    /\ \A i \in Fetchers : gets[i] = 1
    /\ exec_result = [campaign |-> "started"]

====
